---- MODULE Spec2Model ----
(***************************************************************************)
(* Model of the JSON-RPC request layer of the extension: the module        *)
(* globals pythonProcess / requestManager, class PythonRequestManager      *)
(* (pendingRequests, requestId, handleResponse, sendRequest),              *)
(* startPythonProcess with its exit observer, getRequestManager,           *)
(* sendToPython and deactivate.  The worker subprocess and the event loop  *)
(* (timers, stdout 'data' events, 'exit' events) are the environment.      *)
(***************************************************************************)
EXTENDS Naturals, Sequences, FiniteSets

\* ------------------------------------------------------------------ bounds
\* number of sendToPython invocations explored
MaxCalls == 3
\* number of lines the workers write to their stdout, in total
MaxOut == 2
\* the same, in the behaviours checked for liveness
MaxFairOut == 1
MaxWideCalls == 2
MaxViewCalls == 2
MaxErr == 1

\* ------------------------------------------------------- program constants
\* timeout sendToPython passes to sendRequest
SendTimeoutMs == 10000

\* default of the timeoutMs parameter of sendRequest
DefaultTimeoutMs == 3000

\* the method names handleWebviewMessage passes to sendToPython; the request
\* layer only copies the name into the envelope and the timeout message
Methods == {"say_hello"}

VARIABLES
    pythonProcess,   \* module global: 0 is null, otherwise an index of procs
    requestManager,  \* module global: 0 is null, otherwise an index of mgrs
    procs,           \* every ChildProcess object cp.spawn has returned
    mgrs,            \* every PythonRequestManager object constructed
    calls,           \* every promise sendRequest has created
    timers,          \* the armed setTimeout handles (by call index)
    nLines,          \* the lines the workers have begun to deliver on stdout
    posts,           \* per call, the messages its handler has posted to the webview
    nErr             \* the 'data' events delivered on the stderr of the workers

vars == <<pythonProcess, requestManager, procs, mgrs, calls, timers, nLines, posts,
          nErr>>

\* ------------------------------------------------------------- wire format
\* the value of a field an object does not have
Absent == [undefined |-> TRUE]
EmptyString == [str |-> ""]

NLbyte == [k |-> "nl"]
\* a line of text that is not JSON
GarbageByte == [k |-> "text"]

\* JSON.stringify(obj): the text of one object, in two pieces: the opening
\* {"jsonrpc":"2 that every envelope shares, and the rest of the text
Stringify(obj) == << [k |-> "head"], [k |-> "tail", o |-> obj] >>

\* JSON.stringify(request) + '\n'
EncodeLine(obj) == Stringify(obj) \o <<NLbyte>>

RECURSIVE TrimLeft(_)
TrimLeft(t) ==
    IF t # <<>> /\ Head(t) = NLbyte THEN TrimLeft(Tail(t)) ELSE t

RECURSIVE TrimRight(_)
TrimRight(t) ==
    IF t # <<>> /\ t[Len(t)] = NLbyte THEN TrimRight(SubSeq(t, 1, Len(t) - 1)) ELSE t

ParseError == [threw |-> "SyntaxError"]

\* JSON.parse(text): the one object the text holds (surrounding whitespace is
\* allowed), a SyntaxError for anything else
JSONparse(text) ==
    LET t == TrimRight(TrimLeft(text))
    IN  IF /\ Len(t) = 2
           /\ t[1].k = "head"
           /\ t[2].k = "tail"
        THEN t[2].o
        ELSE ParseError

\* JavaScript truthiness of a field value
Truthy(v) == v # Absent /\ v # EmptyString

\* v !== undefined
DefinedAndTruthy(v) == Truthy(v)

Defined(v) == v # Absent

\* ------------------------------------------------------------ the promises
NoValue == [none |-> TRUE]

\* resolve(v) / reject(v) of the promise of call c: the first one settles it
SettleIn(cs, c, how, v) ==
    [cs EXCEPT ![c] =
        IF @.settles = 0
        THEN [@ EXCEPT !.outcome = how, !.value = v, !.settles = 1]
        ELSE [@ EXCEPT !.settles = 2]]

\* ---------------------------------------------------- PythonRequestManager
\* Map.get: the entry, 0 for undefined
PendingGetFirst(pending, id) ==
    IF DOMAIN pending = {} THEN 0
    ELSE pending[CHOOSE i \in DOMAIN pending : \A j \in DOMAIN pending : i <= j]

PendingGet(pending, id) ==
    IF id \in DOMAIN pending THEN pending[id] ELSE 0

\* Map.delete
PendingDeleteNothing(pending, id) == pending

PendingDelete(pending, id) ==
    [i \in DOMAIN pending \ {id} |-> pending[i]]

\* Map.set
PendingSet(pending, id, c) ==
    [i \in DOMAIN pending \cup {id} |-> IF i = id THEN c ELSE pending[i]]

\* clearTimeout
ClearTimeoutNothing(ts, c) == ts

ClearTimeout(ts, c) == ts \ {c}

\* setTimeout
SetTimeoutNothing(ts, c) == ts

SetTimeout(ts, c) == ts \cup {c}

\* stream.write(text): text goes after what was written before
WriteInFront(written, text) == text \o written

Write(written, text) == written \o text

\* this.requestId++
NextRequestIdSame(n) == n

NextRequestId(n) == n + 1

\* handleResponse(data) of manager m, on the state st = [mgrs, calls, timers]
HandleResponse(st, m, data) ==
    LET response == JSONparse(data)
    IN  IF response = ParseError
        THEN st                                   \* catch: console.error
        ELSE
          LET c == PendingGet(st.mgrs[m].pendingRequests, response.id)
          IN  IF c = 0
              THEN st                             \* console.warn
              ELSE
                LET ts == ClearTimeout(st.timers, c)
                    ms == [st.mgrs EXCEPT ![m].pendingRequests =
                              PendingDelete(@, response.id)]
                    cs == IF Defined(response.result)
                          THEN SettleIn(st.calls, c, "result", response.result)
                          ELSE IF Truthy(response.error)
                          THEN SettleIn(st.calls, c, "rpcError", response.error)
                          ELSE SettleIn(st.calls, c, "malformed",
                                        [err |-> "No result or error in response"])
                IN  [mgrs |-> ms, calls |-> cs, timers |-> ts]

\* the 'data' listeners of a stream run in the order they were registered
RECURSIVE Emit(_, _, _)
Emit(st, listeners, data) ==
    IF listeners = <<>> THEN st
    ELSE Emit(HandleResponse(st, Head(listeners), data), Tail(listeners), data)

\* ----------------------------------------------------------- child process
\* the ChildProcess object cp.spawn returns.  state: "running", "killed"
\* (kill() has sent the signal, the 'exit' event is not yet dispatched),
\* "exited" (the 'exit' event has been dispatched), "failed" (the spawn
\* failed: no process, no 'exit' event).  A spawn can fail leaving no stdio
\* streams ("failed"), or leaving streams nothing is attached to ("enoent":
\* writes to stdin fail, stdout carries no data)
NewProc(outcome) ==
    [state     |-> IF outcome = "ok" THEN "running" ELSE "failed",
     killed    |-> FALSE,
     hasStdin  |-> outcome # "failed",
     hasStdout |-> outcome # "failed",
     stdin     |-> <<>>,     \* the bytes written to the worker's stdin
     partial   |-> <<>>,     \* the delivered bytes of the line not yet ended
     listeners |-> <<>>]     \* the managers whose handleResponse listens

SpawnOutcomes == {"ok", "failed"}

WideSpawnOutcomes == SpawnOutcomes \cup {"enoent"}

\* the state the functions below work on
Globals ==
    [pythonProcess |-> pythonProcess, requestManager |-> requestManager,
     procs |-> procs, mgrs |-> mgrs, calls |-> calls, timers |-> timers]

\* the test that opens startPythonProcess: the current process is reused
ProcessReusable(G) ==
    G.pythonProcess # 0 /\ ~G.procs[G.pythonProcess].killed

\* startPythonProcess(context): G with the process to use in pythonProcess
StartPythonProcess(G, outcome) ==
    IF ProcessReusable(G)
    THEN G
    ELSE [G EXCEPT !.procs = Append(@, NewProc(outcome)),
                   !.pythonProcess = Len(G.procs) + 1]

\* the 'exit' observer startPythonProcess attaches
ExitHandlerKeepsManager(G) ==
    [G EXCEPT !.pythonProcess = 0]

ExitHandler(G) ==
    [G EXCEPT !.pythonProcess = 0, !.requestManager = 0]

\* a constructor that attaches the handler to the stdout of every process
NewManagerOnEveryStdout(G, p) ==
    LET m == Len(G.mgrs) + 1
    IN  [G EXCEPT
          !.mgrs = Append(@, [process |-> p, pendingRequests |-> <<>>,
                              requestId |-> 1]),
          !.procs = [w \in 1..Len(G.procs) |->
                        IF G.procs[w].hasStdout
                        THEN [G.procs[w] EXCEPT !.listeners = Append(@, m)]
                        ELSE G.procs[w]],
          !.requestManager = m]

\* new PythonRequestManager(process)
NewManager(G, p) ==
    LET m == Len(G.mgrs) + 1
    IN  [G EXCEPT
          !.mgrs = Append(@, [process |-> p, pendingRequests |-> <<>>,
                              requestId |-> 1]),
          !.procs = IF G.procs[p].hasStdout
                    THEN [@ EXCEPT ![p].listeners = Append(@, m)]
                    ELSE @,
          !.requestManager = m]

\* the test of getRequestManager
NeedManagerAlways(G) == TRUE

NeedManager(G) ==
    \/ G.requestManager = 0
    \/ G.pythonProcess = 0
    \/ G.procs[G.pythonProcess].killed

\* getRequestManager(context): G with the manager to use in requestManager
GetRequestManager(G, outcome) ==
    IF NeedManager(G)
    THEN LET G1 == StartPythonProcess([G EXCEPT !.requestManager = 0], outcome)
         IN  NewManager(G1, G1.pythonProcess)
    ELSE G

\* manager m's sendRequest(method, params, timeoutMs)
SendRequest(G, m, method, timeoutMs) ==
    LET id == G.mgrs[m].requestId
        c  == Len(G.calls) + 1
        p  == G.mgrs[m].process
        request == [jsonrpc |-> "2.0", id |-> id, method |-> method]
        G1 == [G EXCEPT
                !.mgrs[m].requestId = NextRequestId(@),
                !.calls = Append(@, [mgr |-> m, id |-> id, method |-> method,
                                     timeoutMs |-> timeoutMs,
                                     outcome |-> "pending", value |-> NoValue,
                                     settles |-> 0]),
                !.timers = SetTimeout(@, c),
                !.mgrs[m].pendingRequests = PendingSet(@, id, c)]
    IN  IF G1.procs[p].hasStdin
        THEN [G1 EXCEPT !.procs[p].stdin = Write(@, EncodeLine(request))]
        ELSE [G1 EXCEPT
                !.timers = ClearTimeout(@, c),
                !.mgrs[m].pendingRequests = PendingDelete(@, id),
                !.calls = SettleIn(@, c, "transport",
                                   [err |-> "Python process stdin not available"])]

\* the callback sendRequest hands to setTimeout, for call c
TimeoutCallbackShared(G, c) ==
    LET m == G.calls[c].mgr
    IN  [G EXCEPT
          !.timers = {},
          !.mgrs[m].pendingRequests = <<>>,
          !.calls = SettleIn(@, c, "timeout",
                             [err |-> "Timeout", id |-> G.calls[c].id,
                              method |-> G.calls[c].method,
                              ms |-> G.calls[c].timeoutMs])]

TimeoutCallback(G, c) ==
    LET m == G.calls[c].mgr
        id == G.calls[c].id
    IN  [G EXCEPT
          !.timers = @ \ {c},
          !.mgrs[m].pendingRequests = PendingDelete(@, id),
          !.calls = SettleIn(@, c, "timeout",
                             [err |-> "Timeout", id |-> id,
                              method |-> G.calls[c].method,
                              ms |-> G.calls[c].timeoutMs])]

\* a deactivate that kills the worker and leaves requestManager alone
DeactivateProcessOnly(G) ==
    LET p == G.pythonProcess
    IN  IF p # 0 /\ ~G.procs[p].killed
        THEN [G EXCEPT
                !.procs[p] =
                    IF @.state = "running"
                    THEN [@ EXCEPT !.killed = TRUE, !.state = "killed"]
                    ELSE @,
                !.pythonProcess = 0]
        ELSE G

\* deactivate()
DeactivateFn(G) ==
    LET p == G.pythonProcess
        G1 == IF p # 0 /\ ~G.procs[p].killed
              THEN [G EXCEPT
                      \* kill(): the signal is sent if there is a process
                      !.procs[p] =
                          IF @.state = "running"
                          THEN [@ EXCEPT !.killed = TRUE, !.state = "killed"]
                          ELSE @,
                      !.pythonProcess = 0]
              ELSE G
    IN  [G1 EXCEPT !.requestManager = 0]

\* ------------------------------------------------------ handleWebviewMessage
\* the webview commands handleWebviewMessage handles and the method of each
ViewMethods == {"say_hello", "process_path"}

\* `${error}`: the message of an Error, a string as it is, and the fixed text
\* "[object Object]" for any other object
ToStr(v) ==
    IF "from" \in DOMAIN v THEN [str |-> [text |-> "[object Object]"]]
    ELSE [str |-> v]

\* the message handleWebviewMessage posts when the promise sendToPython
\* returned for call k is settled
PostFor(k) ==
    IF k.outcome = "result"
    THEN [type |-> "result", data |-> k.value]
    ELSE [type |-> "error",
          data |-> [prefix |-> IF k.method = "say_hello" THEN "Error: "
                               ELSE "Error processing path: ",
                    text |-> ToStr(k.value)]]

\* handleWebviewMessage resumes after its await for every call settled in this
\* task: the handler of a call posts when its promise is settled
ResumeEveryTask(ps, cs) ==
    [c \in 1..Len(cs) |->
        IF cs[c].settles > 0
        THEN (IF c <= Len(ps) THEN ps[c] ELSE <<>>) \o <<PostFor(cs[c])>>
        ELSE <<>>]

Resume(ps, cs) ==
    [c \in 1..Len(cs) |->
        IF c <= Len(ps) /\ ps[c] # <<>> THEN ps[c]
        ELSE IF cs[c].settles > 0 THEN <<PostFor(cs[c])>>
        ELSE <<>>]

\* ------------------------------------------------------------------ actions
Install(G) ==
    /\ posts' = Resume(posts, G.calls)
    /\ pythonProcess' = G.pythonProcess
    /\ requestManager' = G.requestManager
    /\ procs' = G.procs
    /\ mgrs' = G.mgrs
    /\ calls' = G.calls
    /\ timers' = G.timers
    /\ UNCHANGED <<nLines, nErr>>

Init ==
    /\ pythonProcess = 0
    /\ requestManager = 0
    /\ procs = <<>>
    /\ mgrs = <<>>
    /\ calls = <<>>
    /\ timers = {}
    /\ nLines = 0
    /\ posts = <<>>
    /\ nErr = 0

\* cp.spawn is reached by the next sendToPython
WillSpawn(G) == NeedManager(G) /\ ~ProcessReusable(G)

\* sendToPython(method, params, context), called by handleWebviewMessage
SendToPythonDefaultTimeout(method, outcome) ==
    /\ Len(calls) < MaxCalls
    /\ outcome \in (IF WillSpawn(Globals) THEN WideSpawnOutcomes ELSE {"ok"})
    /\ LET G1 == GetRequestManager(Globals, outcome)
       IN  Install(SendRequest(G1, G1.requestManager, method, DefaultTimeoutMs))

SendToPython(method, outcome) ==
    /\ Len(calls) < MaxCalls
    /\ outcome \in (IF WillSpawn(Globals) THEN WideSpawnOutcomes ELSE {"ok"})
    /\ LET G1 == GetRequestManager(Globals, outcome)
       IN  Install(SendRequest(G1, G1.requestManager, method, SendTimeoutMs))

\* sendToPython when cp.spawn throws: getRequestManager has cleared
\* requestManager, the exception leaves sendToPython before a manager exists
\* and is caught by the handler
SendToPythonThrows(method) ==
    /\ Len(calls) < MaxCalls
    /\ WillSpawn(Globals) = TRUE
    /\ Install([Globals EXCEPT
                  !.requestManager = 0,
                  !.calls = Append(@, [mgr |-> 0, id |-> 0, method |-> method,
                                       timeoutMs |-> SendTimeoutMs,
                                       outcome |-> "threw",
                                       value |-> [err |-> "spawn"],
                                       settles |-> 1])])

\* the extension host calls deactivate()
Deactivate ==
    Install(DeactivateFn(Globals))

\* the timer of call c expires
TimerFire(c) ==
    /\ c \in timers
    /\ Install(TimeoutCallback(Globals, c))

\* the 'exit' event of process w is dispatched: the process was killed, or
\* it ends by itself (crash or normal exit)
ExitEvent(w) ==
    /\ procs[w].state \in {"running", "killed"}
    /\ Install(ExitHandler([Globals EXCEPT !.procs[w].state = "exited"]))

Shapes == {"result", "error", "neither"}

\* envelopes whose result or error is the empty string
WideShapes == Shapes \cup {"resultEmpty", "errorEmpty"}

\* a response envelope of worker w, as backend.py prints it
Envelope(w, id, shape) ==
    [jsonrpc |-> "2.0", id |-> id,
     result |-> IF shape = "result" THEN [from |-> w, re |-> id]
                ELSE IF shape = "resultEmpty" THEN EmptyString
                ELSE Absent,
     error  |-> IF shape = "error" THEN [from |-> w, re |-> id]
                ELSE IF shape = "errorEmpty" THEN EmptyString
                ELSE Absent]

\* the ids worker w may answer: those of the requests written to its stdin,
\* and one it was never sent
EnvIds(w) == 1..(Len(procs[w].stdin) \div 3 + 1)

\* the lines worker w may print: a response envelope, or text that is not JSON
LinesOfWorker(w, shapes) ==
    {EncodeLine(Envelope(w, id, shape)) : id \in EnvIds(w), shape \in shapes}
      \cup {<<GarbageByte, NLbyte>>}

\* what the stdout stream of w may hold after a line of which `part` has been
\* delivered, in at most `left` further lines: the rest of that line, then
\* whole lines
RECURSIVE StreamsFrom(_, _, _, _)
StreamsFrom(w, part, left, shapes) ==
    LET rests == IF part = <<>> THEN {<<>>}
                 ELSE {SubSeq(l, Len(part) + 1, Len(l)) :
                         l \in {x \in LinesOfWorker(w, shapes) :
                                  SubSeq(x, 1, Len(part)) = part}}
        more == IF left = 0 THEN {<<>>}
                ELSE {<<>>} \cup
                     {l \o s : l \in LinesOfWorker(w, shapes),
                               s \in StreamsFrom(w, <<>>, left - 1, shapes)}
    IN  {r \o m : r \in rests, m \in more}

\* the chunks a 'data' event on the stdout of w may carry: a non-empty prefix
\* of what the stream may hold
ChunksOf(w, left, shapes) ==
    UNION {{SubSeq(s, 1, n) : n \in 1..Len(s)} :
             s \in StreamsFrom(w, procs[w].partial, left, shapes)}

Chunks(w, left) == ChunksOf(w, left, Shapes)

WideChunks(w, left) == ChunksOf(w, left, WideShapes)

\* the bytes after the last newline of part \o data
RECURSIVE Unterminated(_)
Unterminated(t) ==
    IF \E i \in 1..Len(t) : t[i] = NLbyte
    THEN Unterminated(Tail(t))
    ELSE t

\* the lines that begin in data
BeginIn(part, data) ==
    Cardinality({i \in 1..Len(data) :
                   /\ data[i] # NLbyte
                   /\ IF i = 1 THEN part = <<>> ELSE data[i - 1] = NLbyte})

\* a 'data' event on the stdout of w carrying data
StdoutData(w, data) ==
    /\ procs[w].hasStdout
    /\ procs[w].state # "failed"
    /\ LET st == Emit([mgrs |-> mgrs, calls |-> calls, timers |-> timers],
                      procs[w].listeners, data)
       IN  /\ mgrs' = st.mgrs
           /\ calls' = st.calls
           /\ timers' = st.timers
           /\ procs' = [procs EXCEPT ![w].partial = Unterminated(@ \o data)]
           /\ nLines' = nLines + BeginIn(procs[w].partial, data)
           /\ posts' = Resume(posts, st.calls)
    /\ UNCHANGED <<pythonProcess, requestManager, nErr>>

\* the 'data' listener startPythonProcess puts on stderr, on the state
\* st = [mgrs, calls, timers]: console.error
StderrListenerDispatches(st, listeners, data) == Emit(st, listeners, data)

StderrListener(st, listeners, data) == st

\* what a worker may write to stderr: any text, that of an envelope included
StderrChunks(w) ==
    {EncodeLine(Envelope(w, id, "result")) : id \in EnvIds(w)}
       \cup {<<GarbageByte, NLbyte>>}

\* a 'data' event on the stderr of w carrying data (a process has its stdio
\* streams together)
StderrData(w, data) ==
    /\ nErr < MaxErr
    /\ procs[w].hasStdout
    /\ procs[w].state # "failed"
    /\ LET st == StderrListener([mgrs |-> mgrs, calls |-> calls, timers |-> timers],
                                procs[w].listeners, data)
       IN  /\ mgrs' = st.mgrs
           /\ calls' = st.calls
           /\ timers' = st.timers
           /\ posts' = Resume(posts, st.calls)
    /\ nErr' = nErr + 1
    /\ UNCHANGED <<pythonProcess, requestManager, procs, nLines>>

Next ==
    \/ \E method \in Methods, outcome \in SpawnOutcomes : SendToPython(method, outcome)
    \/ Deactivate
    \/ \E c \in 1..Len(calls) : TimerFire(c)
    \/ \E w \in 1..Len(procs) : ExitEvent(w)
    \/ \E w \in 1..Len(procs) :
         \E data \in Chunks(w, MaxOut - nLines) :
            StdoutData(w, data)

Spec == Init /\ [][Next]_vars

\* the event loop runs the callback of every timer that stays armed
FairNext == Next /\ nLines' <= MaxFairOut

FairSpec ==
    Init /\ [][FairNext]_vars /\ \A c \in 1..MaxCalls : WF_vars(TimerFire(c))

\* the same program with at most MaxWideCalls calls, where an envelope may
\* also carry an empty string and a spawn may also fail with its stdio
\* streams in place
WideNext ==
    /\ \/ \E method \in Methods, outcome \in WideSpawnOutcomes :
            SendToPython(method, outcome)
       \/ Deactivate
       \/ \E c \in 1..Len(calls) : TimerFire(c)
       \/ \E w \in 1..Len(procs) : ExitEvent(w)
       \/ \E w \in 1..Len(procs) :
            \E data \in WideChunks(w, MaxOut - nLines) :
               StdoutData(w, data)
    /\ Len(calls') <= MaxWideCalls

WideSpec == Init /\ [][WideNext]_vars

\* the same program with at most MaxViewCalls webview messages, of both
\* handled commands, where cp.spawn may also throw and the workers may write
\* to stderr
ViewNext ==
    /\ \/ \E method \in ViewMethods, outcome \in SpawnOutcomes :
            SendToPython(method, outcome)
       \/ \E method \in ViewMethods : SendToPythonThrows(method)
       \/ Deactivate
       \/ \E c \in 1..Len(calls) : TimerFire(c)
       \/ \E w \in 1..Len(procs) : ExitEvent(w)
       \/ \E w \in 1..Len(procs) :
            \E data \in Chunks(w, MaxOut - nLines) :
               StdoutData(w, data)
       \/ \E w \in 1..Len(procs) :
            \E data \in StderrChunks(w) :
               StderrData(w, data)
    /\ Len(calls') <= MaxViewCalls

ViewSpec == Init /\ [][ViewNext]_vars

\* ------------------------------------------------------------------ claims
CallIds == 1..Len(calls)

Pending(c) == calls[c].outcome = "pending"

\* the process the manager of call c writes to and listens on
ProcOf(c) == mgrs[calls[c].mgr].process

Settlements == {"result", "rpcError", "malformed", "timeout", "transport"}

\* C1: exactly-once settlement.  resolve/reject is invoked at most once for
\* every call, whatever envelopes (duplicates, unknown ids) and timers follow,
\* and a settled call is settled by exactly one of result, RPC error,
\* malformed response, timeout, transport error.
ExactlyOnceSettlement ==
    \A c \in CallIds :
        /\ calls[c].settles <= 1
        /\ calls[c].settles = 1 <=> calls[c].outcome \in Settlements
        /\ calls[c].settles = 0 <=> Pending(c)

\* C1 witness: the only call was resolved by its response, and afterwards the
\* text of a second envelope with the same id has been delivered.
DuplicateAfterSettlement ==
    /\ Len(calls) = 1
    /\ calls[1].outcome = "result"
    /\ calls[1].settles = 1
    /\ nLines = 2
    /\ procs[1].partial = Stringify(Envelope(1, 1, "error"))

\* C2: correlation correctness.  A call settled by a response holds the
\* payload of an envelope that carries its own id (and was printed by the
\* worker its manager is bound to), never the payload of another id.
CorrelationCorrect ==
    \A c \in CallIds :
        calls[c].outcome \in {"result", "rpcError"} =>
            calls[c].value = [from |-> ProcOf(c), re |-> calls[c].id]

\* C2 witness: two calls are outstanding on one manager and the response of
\* the later one arrived first.
AnsweredOutOfOrder ==
    /\ Len(calls) >= 2
    /\ calls[1].mgr = calls[2].mgr
    /\ Pending(1)
    /\ calls[2].outcome = "result"

\* C3: no call stays pending forever (timers that are armed fire): every call
\* issued is eventually settled, also when the worker never answers, exits,
\* or deactivate() runs while the call is outstanding.
NoCallPendingForever ==
    \A c \in 1..MaxCalls :
        (c <= Len(calls)) ~> (c <= Len(calls) /\ ~Pending(c))

\* C3 witness: a call is outstanding although its worker has exited and its
\* manager is no longer the current one.
PendingAfterExit ==
    \E c \in CallIds :
        /\ Pending(c)
        /\ procs[ProcOf(c)].state = "exited"
        /\ requestManager # calls[c].mgr

\* C4: teardown cancellation.  When the worker of a manager is torn down (its
\* exit event, or the kill of deactivate()) every call pending on the manager
\* is settled in that step with a Cancelled failure and its timer is disarmed.
TeardownCancellation ==
    [][\A c \in CallIds :
         (/\ Pending(c)
          /\ procs[ProcOf(c)].state = "running"
          /\ procs'[ProcOf(c)].state \in {"killed", "exited"})
         => (calls'[c].outcome = "cancelled" /\ c \notin timers')]_vars

\* C5: no pending call survives a worker-handle swap.  Once another worker
\* handle is current, a manager bound to an earlier handle has an empty
\* pending set.
NoPendingSurvivesSwap ==
    \A m \in 1..Len(mgrs) :
        (pythonProcess # 0 /\ pythonProcess # mgrs[m].process)
            => DOMAIN mgrs[m].pendingRequests = {}

\* the half of C6 about the call after the crash: a call issued when no
\* worker is current spawns a worker and binds a new manager to it
SpawnsAfterExit ==
    [][(Len(calls') = Len(calls) + 1 /\ pythonProcess = 0)
         => /\ Len(procs') = Len(procs) + 1
            /\ pythonProcess' = Len(procs')
            /\ requestManager' = Len(mgrs')
            /\ mgrs'[requestManager'].process = pythonProcess'
            /\ calls'[Len(calls')].mgr = requestManager']_vars

\* C6: crash recovery.  A call whose worker exits before responding is
\* settled as Cancelled by the exit, and a call issued after the exit gets a
\* new worker and a new manager bound to it.
CrashRecovery ==
    [][/\ \A c \in CallIds :
            (/\ Pending(c)
             /\ procs[ProcOf(c)].state = "running"
             /\ procs'[ProcOf(c)].state = "exited")
            => calls'[c].outcome = "cancelled"
       /\ (Len(calls') = Len(calls) + 1 /\ pythonProcess = 0)
            => /\ Len(procs') = Len(procs) + 1
               /\ pythonProcess' = Len(procs')
               /\ mgrs'[requestManager'].process = pythonProcess']_vars

\* the worker processes that were spawned and neither killed nor exited
LiveWorkers == {w \in 1..Len(procs) : procs[w].state = "running"}

\* C7: single live worker.  At most one live worker process exists, and it is
\* the one pythonProcess refers to.
SingleLiveWorker ==
    /\ Cardinality(LiveWorkers) <= 1
    /\ \A w \in LiveWorkers : pythonProcess = w

\* C8: the exit observer of a worker invalidates only that worker's handle:
\* the exit event of a process that is not the current one leaves
\* pythonProcess and requestManager as they are.
ExitObserverScoped ==
    [][\A w \in 1..Len(procs) :
         (/\ procs[w].state # "exited"
          /\ procs'[w].state = "exited"
          /\ pythonProcess # 0
          /\ pythonProcess # w)
         => (pythonProcess' = pythonProcess /\ requestManager' = requestManager)]_vars

\* C9: at most one manager is bound to a worker process: no process has more
\* than one stdout 'data' listener, and no two managers hold the same process.
OneManagerPerWorker ==
    /\ \A w \in 1..Len(procs) : Len(procs[w].listeners) <= 1
    /\ \A m1, m2 \in 1..Len(mgrs) :
          mgrs[m1].process = mgrs[m2].process => m1 = m2

\* C9 witness: after a kill and an exit three workers have been spawned, the
\* current one serves two calls, and each worker has its one listener.
ThreeWorkersOneListenerEach ==
    /\ Len(procs) = 3
    /\ \A w \in 1..3 : Len(procs[w].listeners) = 1
    /\ procs[1].killed
    /\ procs[2].state = "exited" /\ ~procs[2].killed

\* the first line of text t, its newline included (t itself if it has none)
RECURSIVE FirstLine(_)
FirstLine(t) ==
    IF t = <<>> THEN <<>>
    ELSE IF Head(t) = NLbyte THEN <<NLbyte>>
    ELSE <<Head(t)>> \o FirstLine(Tail(t))

\* C10: partial-frame reassembly.  When a 'data' event delivers the newline
\* of a response line whose beginning came in an earlier event, the envelope
\* of the whole line is decoded, and the call pending under its id is resolved
\* with its result.
PartialFrameReassembly ==
    [][\A w \in 1..Len(procs) : \A data \in Chunks(w, MaxOut - nLines) :
         LET line == FirstLine(procs[w].partial \o data)
             e == JSONparse(line)
         IN  (/\ StdoutData(w, data)
              /\ procs[w].partial # <<>>
              /\ line[Len(line)] = NLbyte
              /\ e # ParseError)
             => \A i \in 1..Len(procs[w].listeners) :
                  LET c == PendingGet(mgrs[procs[w].listeners[i]].pendingRequests, e.id)
                  IN  (c # 0 /\ e.result # Absent)
                        => (calls'[c].outcome = "result" /\ calls'[c].value = e.result)]_vars

\* the complete (newline-terminated) lines of text t, in order
RECURSIVE CompleteLines(_)
CompleteLines(t) ==
    LET l == FirstLine(t)
    IN  IF l = <<>> \/ l[Len(l)] # NLbyte THEN <<>>
        ELSE <<l>> \o CompleteLines(SubSeq(t, Len(l) + 1, Len(t)))

\* the call a listener of worker w holds pending under the id of envelope e
\* (0 if none)
PendingUnder(w, e) ==
    LET hits == {c \in CallIds : /\ Pending(c)
                                 /\ ProcOf(c) = w
                                 /\ calls[c].id = e.id
                                 /\ \E i \in 1..Len(procs[w].listeners) :
                                      procs[w].listeners[i] = calls[c].mgr}
    IN  IF hits = {} THEN 0 ELSE CHOOSE c \in hits : TRUE

\* C11: multi-frame chunk.  When one 'data' event carries two or more complete
\* response lines and nothing else, every one of their envelopes is decoded
\* and dispatched: each call pending under the id of one of them is settled
\* in that event.
MultiFrameChunk ==
    [][\A w \in 1..Len(procs) : \A data \in Chunks(w, MaxOut - nLines) :
         LET ls == CompleteLines(data)
         IN  (/\ StdoutData(w, data)
              /\ procs[w].partial = <<>>
              /\ Len(ls) >= 2
              /\ data[Len(data)] = NLbyte
              /\ \A k \in 1..Len(ls) : JSONparse(ls[k]) # ParseError)
             => \A k \in 1..Len(ls) :
                  LET c == PendingUnder(w, JSONparse(ls[k]))
                  IN  c # 0 => calls'[c].outcome \in Settlements]_vars

\* C12: malformed-line isolation.  A line that is not JSON settles no call
\* and removes none from a pending map, and the well-formed line that follows
\* it in the same 'data' event is decoded and dispatched: the call pending
\* under its id is settled in that event.
MalformedLineIsolation ==
    [][\A w \in 1..Len(procs) : \A data \in Chunks(w, MaxOut - nLines) :
         LET ls == CompleteLines(data)
         IN  (/\ StdoutData(w, data)
              /\ procs[w].partial = <<>>
              /\ Len(ls) = 2
              /\ data[Len(data)] = NLbyte
              /\ JSONparse(ls[1]) = ParseError)
             => /\ \A c \in CallIds :
                     calls'[c] # calls[c] => PendingUnder(w, JSONparse(ls[2])) = c
                /\ JSONparse(ls[2]) # ParseError =>
                     LET c == PendingUnder(w, JSONparse(ls[2]))
                     IN  c # 0 => calls'[c].outcome \in Settlements]_vars

\* the chunks worker w may send that JSON.parse accepts: the text of one
\* envelope, with or without the newlines around it
ParseableChunks(w) ==
    {pre \o Stringify(Envelope(w, id, shape)) \o post :
        id \in EnvIds(w), shape \in WideShapes,
        pre \in {<<>>, <<NLbyte>>}, post \in {<<>>, <<NLbyte>>}}

\* this step is the 'data' event on the stdout of w that carries data
DataStep(w, data) ==
    /\ procs'[w].partial = Unterminated(procs[w].partial \o data)
    /\ nLines' = nLines + BeginIn(procs[w].partial, data)
    /\ (procs[w].partial = <<>>) = (Head(data) # NLbyte)
    /\ StdoutData(w, data)

\* C13: orphan tolerance.  A 'data' event whose envelope carries an id under
\* which the worker's listeners hold no pending call settles no call, fires
\* and clears no timer, and leaves every pending map as it was.
OrphanTolerance ==
    [][\A w \in 1..Len(procs) : \A data \in ParseableChunks(w) :
         (/\ DataStep(w, data)
          /\ PendingUnder(w, JSONparse(data)) = 0)
         => (calls' = calls /\ timers' = timers /\ mgrs' = mgrs)]_vars

\* C13 witness: the text of an envelope for an id that was never issued has
\* been delivered while two calls of the same manager stay pending with their
\* timers armed.
OrphanDiscarded ==
    /\ Len(calls) = 2
    /\ Pending(1) /\ Pending(2)
    /\ calls[1].mgr = calls[2].mgr
    /\ timers = {1, 2}
    /\ procs[1].partial = Stringify(Envelope(1, 3, "result"))

\* C14: timeout independence.  When the timer of a pending call fires, that
\* call is rejected as a timeout, once, and every other call is left alone: its
\* record, its timer and its entry in a pending map are as before.
TimeoutIndependence ==
    [][\A c \in CallIds :
         (Pending(c) /\ calls'[c].outcome = "timeout") =>
            /\ calls'[c].settles = 1
            /\ \A d \in CallIds \ {c} :
                 /\ calls'[d] = calls[d]
                 /\ (d \in timers') = (d \in timers)
                 /\ \A m \in 1..Len(mgrs) :
                      \A id \in DOMAIN mgrs[m].pendingRequests :
                         mgrs[m].pendingRequests[id] = d =>
                            /\ id \in DOMAIN mgrs'[m].pendingRequests
                            /\ mgrs'[m].pendingRequests[id] = d]_vars

\* C14 witness: of three calls of one manager the first has timed out, the
\* second has been resolved by its response, and the third is still pending
\* with its timer armed.
TimedOutBesidePending ==
    /\ Len(calls) = 3
    /\ \A c \in CallIds : calls[c].mgr = 1
    /\ calls[1].outcome = "timeout"
    /\ calls[2].outcome = "result"
    /\ Pending(3) /\ 3 \in timers
    /\ PendingGet(mgrs[1].pendingRequests, 3) = 3

\* C15: timeout settlement and late response.  When the timer of a pending
\* call fires, the call leaves the pending map of its manager, its timer is
\* gone, and it is rejected with a timeout error that names its id, its method
\* and the timeout in ms; from then on nothing changes the call, a matching
\* envelope included.
TimeoutSettlement ==
    [][\A c \in CallIds :
         /\ (Pending(c) /\ calls'[c].outcome = "timeout") =>
               /\ c \in timers /\ c \notin timers'
               /\ calls[c].id \notin DOMAIN mgrs'[calls[c].mgr].pendingRequests
               /\ calls'[c].value = [err |-> "Timeout", id |-> calls[c].id,
                                     method |-> calls[c].method,
                                     ms |-> SendTimeoutMs]
         /\ calls[c].outcome = "timeout" => calls'[c] = calls[c]]_vars

\* C15 witness: the only call has timed out, and the text of the envelope
\* that answers it has been delivered.
LateResponseAfterTimeout ==
    /\ Len(calls) = 1
    /\ calls[1].outcome = "timeout"
    /\ calls[1].settles = 1
    /\ nLines = 1
    /\ procs[1].partial = Stringify(Envelope(1, 1, "result"))

\* C16: write failure.  A call made when the stdin of its worker is missing,
\* or when the write to it fails because no process is attached to it, is
\* rejected with a transport error inside sendRequest: when sendRequest has
\* returned, the call is not in the pending map and has no timer.
WriteFailure ==
    [][Len(calls') = Len(calls) + 1 =>
         LET c == Len(calls')
             m == calls'[c].mgr
             p == mgrs'[m].process
         IN  (~procs'[p].hasStdin \/ procs'[p].state = "failed") =>
                /\ calls'[c].outcome = "transport"
                /\ c \notin timers'
                /\ calls'[c].id \notin DOMAIN mgrs'[m].pendingRequests]_vars

\* the calls made through manager m, in the order they were made
CallsOf(m) == {c \in CallIds : calls[c].mgr = m}

\* C17: call identifiers.  The calls made through one manager are numbered
\* 1, 2, 3, ... in the order they are made, calls rejected at write time
\* included; so two calls of a manager never share an id, and the next id the
\* manager will issue is larger than all of them.
IdsStrictlyIncreasing ==
    /\ \A c \in CallIds :
         calls[c].id = Cardinality({d \in CallsOf(calls[c].mgr) : d <= c})
    /\ \A m \in 1..Len(mgrs) :
         mgrs[m].requestId = Cardinality(CallsOf(m)) + 1
    /\ \A c, d \in CallIds :
         (c < d /\ calls[c].mgr = calls[d].mgr) => calls[c].id < calls[d].id

\* C17 witness: a manager whose first call was rejected at write time and is
\* followed by a second and a third call, with ids 1, 2, 3.
IdsAfterFailedWrite ==
    /\ Len(calls) = 3
    /\ CallsOf(1) = {1, 2, 3}
    /\ calls[1].outcome = "transport"
    /\ calls[1].id = 1 /\ calls[2].id = 2 /\ calls[3].id = 3

FailureClassification ==
    [][\A w \in 1..Len(procs) : \A data \in ParseableChunks(w) :
         LET e == JSONparse(data)
             c == PendingUnder(w, e)
         IN  (/\ c # 0
              /\ e.result = Absent
              /\ DataStep(w, data))
             => IF e.error # Absent
                THEN calls'[c].outcome = "rpcError" /\ calls'[c].value = e.error
                ELSE calls'[c].outcome = "malformed"]_vars

\* C20: worker reuse.  While the worker that served the last sendToPython
\* call has not exited and has not been killed, the next call uses the same
\* worker and the same manager: nothing is spawned, no manager is created, no
\* stdout listener is added.
WorkerReuse ==
    [][(Len(calls') = Len(calls) + 1 /\ Len(calls) >= 1) =>
         LET last == Len(calls)
             w == ProcOf(last)
         IN  procs[w].state = "running" =>
                /\ calls'[Len(calls')].mgr = calls[last].mgr
                /\ Len(procs') = Len(procs)
                /\ Len(mgrs') = Len(mgrs)
                /\ procs'[w].listeners = procs[w].listeners]_vars

\* C21: spawn failure.  When the spawn a sendToPython call triggers fails,
\* that call is rejected at once and the failed handle is not kept as the
\* current worker; and a call made while the current handle is one of a
\* failed spawn spawns again.
SpawnFailure ==
    [][Len(calls') = Len(calls) + 1 =>
         /\ (Len(procs') > Len(procs) /\ procs'[Len(procs')].state = "failed") =>
               /\ calls'[Len(calls')].outcome \in Settlements
               /\ pythonProcess' # Len(procs')
         /\ (pythonProcess # 0 /\ procs[pythonProcess].state = "failed") =>
               Len(procs') > Len(procs)]_vars

Failures == {"rpcError", "malformed", "timeout", "transport"}

\* C22: usable after any single error.  A sendToPython call made after some
\* call has failed is routed to a live worker: the process its manager writes
\* to is running, and that manager listens on the stdout of that process.
UsableAfterError ==
    [][(/\ Len(calls') = Len(calls) + 1
        /\ \E c \in CallIds : calls[c].outcome \in Failures) =>
         LET m == calls'[Len(calls')].mgr
             p == mgrs'[m].process
         IN  /\ procs'[p].state = "running"
             /\ \E i \in 1..Len(procs'[p].listeners) : procs'[p].listeners[i] = m]_vars

\* the calls whose envelope was handed to the stdin of worker w
WrittenTo(w) ==
    {c \in CallIds : ProcOf(c) = w /\ calls[c].outcome # "transport"}

\* C23: outbound write order.  The stdin of every worker holds exactly the
\* request envelopes of the calls written to it, one newline-terminated line
\* per call, in the order the calls were made (so in the order of their ids).
OutboundWriteOrder ==
    \A w \in 1..Len(procs) :
        LET ls == CompleteLines(procs[w].stdin)
        IN  /\ Unterminated(procs[w].stdin) = <<>>
            /\ Len(ls) = Cardinality(WrittenTo(w))
            /\ \A c \in WrittenTo(w) :
                 ls[Cardinality({d \in WrittenTo(w) : d <= c})] =
                    EncodeLine([jsonrpc |-> "2.0", id |-> calls[c].id,
                                method |-> calls[c].method])
            /\ \A j, k \in 1..Len(ls) :
                 j < k => JSONparse(ls[j]).id < JSONparse(ls[k]).id

\* C23 witness: three calls were written to one worker; its stdin holds three
\* lines with ids 1, 2, 3 in that order.
ThreeEnvelopesInOrder ==
    /\ Len(procs) = 1
    /\ WrittenTo(1) = {1, 2, 3}
    /\ Len(CompleteLines(procs[1].stdin)) = 3
    /\ JSONparse(CompleteLines(procs[1].stdin)[1]).id = 1
    /\ JSONparse(CompleteLines(procs[1].stdin)[3]).id = 3

\* C24: one message back per handled webview command.  The handler of every
\* sendToPython call has posted nothing while the call is unsettled and exactly
\* one message once it is settled: {type: 'result', data: the value} if the
\* call was resolved, {type: 'error', data: a string} if it was rejected or
\* sendToPython threw; the message has no other field, so no correlation id.
OneMessagePerCommand ==
    /\ DOMAIN posts = CallIds
    /\ \A c \in CallIds :
         /\ Len(posts[c]) = (IF calls[c].settles = 0 THEN 0 ELSE 1)
         /\ posts[c] # <<>> =>
              LET msg == posts[c][1]
              IN  /\ DOMAIN msg = {"type", "data"}
                  /\ IF calls[c].outcome = "result"
                     THEN msg.type = "result" /\ msg.data = calls[c].value
                     ELSE /\ msg.type = "error"
                          /\ DOMAIN msg.data = {"prefix", "text"}
                          /\ DOMAIN msg.data.text = {"str"}

\* C24 witness: a sayHello message whose spawn threw got its error message,
\* and a processPath message after it got the result of its call.
ErrorThenResultPosted ==
    /\ Len(calls) = 2
    /\ calls[1].outcome = "threw" /\ calls[1].method = "say_hello"
    /\ posts[1] = <<[type |-> "error",
                     data |-> [prefix |-> "Error: ",
                               text |-> [str |-> [err |-> "spawn"]]]]>>
    /\ calls[2].method = "process_path"
    /\ posts[2] = <<[type |-> "result", data |-> Envelope(1, 1, "result").result]>>

\* C25: stderr never takes part in correlation.  A 'data' event on the stderr
\* of a worker, whatever text it carries, changes no pending map and no id
\* counter, arms and clears no timer, and settles no call.
StderrNoCorrelation ==
    [][nErr' # nErr =>
         (mgrs' = mgrs /\ timers' = timers /\ calls' = calls /\ posts' = posts)]_vars

\* C25 witness: a 'data' event on stderr has been delivered while the worker's
\* call is pending, in its map, with its timer armed.
StderrWhilePending ==
    /\ nErr = 1
    /\ Len(calls) = 1 /\ Pending(1)
    /\ timers = {1}
    /\ PendingGet(mgrs[1].pendingRequests, 1) = 1
    /\ procs[1].state = "running"

\* the calls that reached sendRequest
Issued == {c \in CallIds : calls[c].outcome # "threw"}

PendingBefore(m) == IF m <= Len(mgrs) THEN mgrs[m].pendingRequests ELSE <<>>

\* C27: pending-map discipline and frame.  A step changes the pending map of
\* a manager in one of two ways only: sendRequest adds the entry of the call
\* it creates and arms its timer, or exactly one entry is removed, its call
\* settled and its timer gone; all other entries of the map, and the timers
\* of all other calls, stay as they were.
PendingMapDiscipline ==
    [][\A m \in 1..Len(mgrs') :
         LET old == PendingBefore(m)
             new == mgrs'[m].pendingRequests
         IN  new # old =>
               \/ /\ Len(calls') = Len(calls) + 1
                  /\ LET c == Len(calls')
                     IN  /\ calls'[c].mgr = m
                         /\ new = PendingSet(old, calls'[c].id, c)
                         /\ calls'[c].id \notin DOMAIN old
                         /\ timers' = timers \cup {c}
               \/ \E id \in DOMAIN old :
                    /\ new = [i \in DOMAIN old \ {id} |-> old[i]]
                    /\ Pending(old[id])
                    /\ calls'[old[id]].outcome \in Settlements
                    /\ timers' = timers \ {old[id]}
                    /\ \A d \in CallIds \ {old[id]} : calls'[d] = calls[d]]_vars

\* C27 witness: of three calls of one manager the second was rejected by an
\* RPC error; the entries of the first and the third are still in the map.
MiddleEntryRemoved ==
    /\ Len(calls) = 3
    /\ calls[2].outcome = "rpcError"
    /\ DOMAIN mgrs[1].pendingRequests = {1, 3}
    /\ timers = {1, 3}

\* C28: the pending map holds the unsettled calls.  For every manager, the
\* ids in pendingRequests are exactly the ids of its calls that are not yet
\* settled, each mapped to its own call.
PendingIffUnsettled ==
    \A m \in 1..Len(mgrs) :
        /\ DOMAIN mgrs[m].pendingRequests =
              {calls[c].id : c \in {d \in CallsOf(m) : Pending(d)}}
        /\ \A c \in CallsOf(m) :
              Pending(c) => mgrs[m].pendingRequests[calls[c].id] = c

\* C28 witness: three calls of one manager have been settled, by a result, a
\* malformed response and a timeout, and its map is empty.
AllSettledMapEmpty ==
    /\ Len(calls) = 3
    /\ CallsOf(1) = {1, 2, 3}
    /\ calls[1].outcome = "result"
    /\ calls[2].outcome = "malformed"
    /\ calls[3].outcome = "timeout"
    /\ DOMAIN mgrs[1].pendingRequests = {}

\* the calls that have an entry in the pending map of their manager
InPendingMap ==
    {c \in Issued : /\ calls[c].id \in DOMAIN mgrs[calls[c].mgr].pendingRequests
                    /\ mgrs[calls[c].mgr].pendingRequests[calls[c].id] = c}

\* C29: timers and pending entries correspond one to one.  The calls with an
\* armed timer are exactly the calls with an entry in a pending map, and a
\* timer is armed for pending calls only, so a timer callback never runs for
\* a settled call.
TimersMatchPending ==
    /\ timers = InPendingMap
    /\ \A c \in timers : Pending(c)

\* C29 witness: the timer of a call resolved by its response and the timer of
\* a call rejected at write time are gone, the timer of a pending call of
\* another manager is armed.
TimerClearedOnSettle ==
    /\ Len(calls) = 3
    /\ calls[1].outcome = "transport"
    /\ calls[2].outcome = "result"
    /\ Pending(3)
    /\ timers = {3}

\* the stdin of process w before the step (empty before the process exists)
StdinBefore(w) == IF w <= Len(procs) THEN procs[w].stdin ELSE <<>>

\* C30: the module globals agree.  In every reachable state requestManager is
\* non-null only if pythonProcess is non-null, and the manager it refers to
\* is bound to the process pythonProcess refers to; and a step writes to the
\* stdin of no process other than the current one.
ManagerBoundToCurrent ==
    /\ [](requestManager # 0 =>
            (pythonProcess # 0 /\ mgrs[requestManager].process = pythonProcess))
    /\ [][\A w \in 1..Len(procs') :
            procs'[w].stdin # StdinBefore(w) => w = pythonProcess']_vars

\* C30 witness: after the first worker has exited, the globals refer to the
\* second worker and to the second manager, which is bound to it and has
\* written a request to it.
GlobalsAfterRespawn ==
    /\ Len(procs) = 2 /\ Len(mgrs) = 2
    /\ procs[1].state = "exited" /\ ~procs[1].killed
    /\ pythonProcess = 2 /\ requestManager = 2
    /\ mgrs[2].process = 2
    /\ procs[2].stdin # <<>>

\* C31: responses do not cross worker generations.  A 'data' event on the
\* stdout of worker w that carries an envelope changes only calls whose
\* request was written to the stdin of w by the manager bound to w; a call of
\* a manager bound to another worker keeps its state although it carries the
\* same id.
NoCrossGeneration ==
    [][\A w \in 1..Len(procs) :
         \A data \in ParseableChunks(w) :
            DataStep(w, data) =>
               \A c \in CallIds :
                  calls'[c] # calls[c] =>
                     (ProcOf(c) = w /\ c \in WrittenTo(w))]_vars

\* C31 witness: the first worker printed its response to id 1 after the call
\* had timed out and a second worker had been started; call 1 of the second
\* manager is still pending.
LateResponseOfEarlierWorker ==
    /\ Len(procs) = 2 /\ Len(calls) = 2
    /\ calls[1].mgr = 1 /\ calls[1].id = 1 /\ calls[1].outcome = "timeout"
    /\ calls[2].mgr = 2 /\ calls[2].id = 1 /\ mgrs[2].process = 2
    /\ procs[1].partial = Stringify(Envelope(1, 1, "result"))
    /\ Pending(2)

\* C32: effect of deactivate().  After a deactivate() step both pythonProcess
\* and requestManager are null; the worker that was current, running and not
\* yet killed is now killed, and no other process, manager, call or timer is
\* touched; with no current worker the step changes nothing but the globals.
\* No step sends a kill to a process that was already killed, and only
\* deactivate() kills, so every worker is killed at most once.
DeactivateEffect ==
    /\ [](pythonProcess # 0 => ~procs[pythonProcess].killed)
    /\ [][Deactivate =>
            /\ pythonProcess' = 0 /\ requestManager' = 0
            /\ UNCHANGED <<mgrs, calls, timers>>
            /\ Len(procs') = Len(procs)
            /\ \A w \in 1..Len(procs) :
                  procs'[w] =
                     IF w = pythonProcess /\ procs[w].state = "running"
                     THEN [procs[w] EXCEPT !.killed = TRUE, !.state = "killed"]
                     ELSE procs[w]
            /\ pythonProcess = 0 => UNCHANGED procs]_vars
    /\ [][\A w \in 1..Len(procs) :
            /\ procs[w].killed => procs'[w].killed
            /\ procs'[w].killed # procs[w].killed =>
                  (w = pythonProcess /\ Deactivate)]_vars

\* C32 witness: deactivate() ran with a running worker and a pending call:
\* the worker is killed, its exit is not yet dispatched, both globals are
\* null and the call is still pending.
DeactivatedRunningWorker ==
    /\ Len(procs) = 1 /\ Len(calls) = 1
    /\ procs[1].killed /\ procs[1].state = "killed"
    /\ pythonProcess = 0 /\ requestManager = 0
    /\ Pending(1)

\* ------------------------------------------- legacy src/src/extension.ts
\* The earlier extension: one module global pythonProcess, no request
\* manager; sendToPython attaches a 'data' listener of its own for every
\* call.  The variables pythonProcess, procs, calls, nLines and posts are
\* used as above; the listeners of a process are the calls whose dataHandler
\* is attached to its stdout.  requestManager, mgrs, timers and nErr do not
\* exist there and stay as they are.
MaxLegacyCalls == 2

LegacyGlobals ==
    [pythonProcess |-> pythonProcess, procs |-> procs, calls |-> calls]

\* startPythonProcess(context)
LegacyStartPythonProcess(G, outcome) ==
    IF G.pythonProcess # 0 /\ ~G.procs[G.pythonProcess].killed
    THEN G
    ELSE [G EXCEPT !.procs = Append(@, NewProc(outcome)),
                   !.pythonProcess = Len(G.procs) + 1]

\* an 'exit' observer that also rejects the calls still waiting
LegacyExitHandlerRejects(G) ==
    [G EXCEPT
       !.pythonProcess = 0,
       !.calls = [c \in 1..Len(G.calls) |->
                    IF G.calls[c].outcome = "pending"
                    THEN [G.calls[c] EXCEPT !.outcome = "transport",
                                            !.value = [err |-> "exit"],
                                            !.settles = 1]
                    ELSE G.calls[c]]]

\* the 'exit' observer startPythonProcess attaches
LegacyExitHandler(G) ==
    [G EXCEPT !.pythonProcess = 0]

\* deactivate()
LegacyDeactivateFn(G) ==
    LET p == G.pythonProcess
    IN  IF p # 0 /\ ~G.procs[p].killed
        THEN [G EXCEPT
                !.procs[p] =
                    IF @.state = "running"
                    THEN [@ EXCEPT !.killed = TRUE, !.state = "killed"]
                    ELSE @,
                !.pythonProcess = 0]
        ELSE G

\* Date.now(): the clock never runs backwards, and two calls made within the
\* same millisecond read the same value
LegacyNow ==
    LET last == IF calls = <<>> THEN 1 ELSE calls[Len(calls)].id
    IN  {last, last + 1}

\* stdout.removeListener('data', dataHandler)
RemoveListener(ls, c) == SelectSeq(ls, LAMBDA x : x # c)

\* a dataHandler that answers only to the envelope that carries its own id
LegacyDataHandlerById(st, c, data) ==
    LET response == JSONparse(data)
    IN  IF response = ParseError \/ response.id # st.calls[c].id
        THEN st
        ELSE [st EXCEPT
                !.procs[st.calls[c].proc].listeners = RemoveListener(@, c),
                !.calls = SettleIn(@, c, "result", response.result)]

\* the dataHandler of call c, on the state st = [procs, calls]
LegacyDataHandler(st, c, data) ==
    LET response == JSONparse(data)
    IN  IF response = ParseError
        THEN [st EXCEPT
                !.calls = SettleIn(@, c, "parseFailure",
                                   [err |-> "Failed to parse response"])]
        ELSE [st EXCEPT
                !.procs[st.calls[c].proc].listeners = RemoveListener(@, c),
                !.calls =
                    IF Defined(response.result)
                    THEN SettleIn(@, c, "result", response.result)
                    ELSE IF Truthy(response.error)
                    THEN SettleIn(@, c, "rpcError", response.error)
                    ELSE SettleIn(@, c, "malformed",
                                  [err |-> "No result or error in response"])]

\* emit('data'): the listeners registered when the event is emitted run in
\* the order they were registered, also those an earlier one removes
RECURSIVE LegacyEmit(_, _, _)
LegacyEmit(st, listeners, data) ==
    IF listeners = <<>> THEN st
    ELSE LegacyEmit(LegacyDataHandler(st, Head(listeners), data),
                    Tail(listeners), data)

\* the executor of the promise sendToPython returns, id being Date.now()
LegacySendRequest(G0, method, outcome, id) ==
    LET G1 == LegacyStartPythonProcess(G0, outcome)
        p  == G1.pythonProcess
        c  == Len(G1.calls) + 1
        request == [jsonrpc |-> "2.0", id |-> id, method |-> method]
        G2 == [G1 EXCEPT
                !.calls = Append(@, [proc |-> p, id |-> id, method |-> method,
                                     outcome |-> "pending", value |-> NoValue,
                                     settles |-> 0])]
    IN  IF ~G2.procs[p].hasStdout
        THEN [G2 EXCEPT
                !.calls = SettleIn(@, c, "transport",
                              [err |-> "Python process stdout not available"])]
        ELSE
          LET G3 == [G2 EXCEPT !.procs[p].listeners = Append(@, c)]
          IN  IF G3.procs[p].hasStdin
              THEN [G3 EXCEPT !.procs[p].stdin = Write(@, EncodeLine(request))]
              ELSE [G3 EXCEPT
                      !.calls = SettleIn(@, c, "transport",
                              [err |-> "Python process stdin not available"])]

LegacyInstall(G) ==
    /\ pythonProcess' = G.pythonProcess
    /\ procs' = G.procs
    /\ calls' = G.calls
    /\ posts' = Resume(posts, G.calls)
    /\ UNCHANGED <<requestManager, mgrs, timers, nLines, nErr>>

\* sendToPython(method, params, context), called by handleWebviewMessage
LegacySendToPython(method, outcome, now) ==
    /\ Len(calls) < MaxLegacyCalls
    /\ outcome \in (IF pythonProcess # 0 /\ ~procs[pythonProcess].killed
                    THEN {"ok"} ELSE SpawnOutcomes)
    /\ LegacyInstall(LegacySendRequest(LegacyGlobals, method, outcome, now))

LegacyDeactivate ==
    LegacyInstall(LegacyDeactivateFn(LegacyGlobals))

\* the 'exit' event of process w is dispatched
LegacyExitEvent(w) ==
    /\ procs[w].state \in {"running", "killed"}
    /\ LegacyInstall(LegacyExitHandler(
            [LegacyGlobals EXCEPT !.procs[w].state = "exited"]))

\* the ids worker w may answer: those of the requests written to its stdin,
\* and one it was never sent
LegacyEnvIds(w) ==
    {calls[c].id : c \in {d \in 1..Len(calls) :
                            calls[d].proc = w /\ calls[d].outcome # "transport"}}
       \cup {0}

LegacyLinesOfWorker(w) ==
    {EncodeLine(Envelope(w, id, shape)) : id \in LegacyEnvIds(w), shape \in Shapes}
      \cup {<<GarbageByte, NLbyte>>}

RECURSIVE LegacyStreamsFrom(_, _, _)
LegacyStreamsFrom(w, part, left) ==
    LET rests == IF part = <<>> THEN {<<>>}
                 ELSE {SubSeq(l, Len(part) + 1, Len(l)) :
                         l \in {x \in LegacyLinesOfWorker(w) :
                                  SubSeq(x, 1, Len(part)) = part}}
        more == IF left = 0 THEN {<<>>}
                ELSE {<<>>} \cup
                     {l \o s : l \in LegacyLinesOfWorker(w),
                               s \in LegacyStreamsFrom(w, <<>>, left - 1)}
    IN  {r \o m : r \in rests, m \in more}

\* the chunks a 'data' event on the stdout of w may carry
LegacyChunks(w, left) ==
    UNION {{SubSeq(s, 1, n) : n \in 1..Len(s)} :
             s \in LegacyStreamsFrom(w, procs[w].partial, left)}

\* a 'data' event on the stdout of w carrying data
LegacyStdoutData(w, data) ==
    /\ procs[w].hasStdout
    /\ procs[w].state # "failed"
    /\ LET st == LegacyEmit([procs |-> procs, calls |-> calls],
                            procs[w].listeners, data)
       IN  /\ calls' = st.calls
           /\ procs' = [st.procs EXCEPT ![w].partial = Unterminated(@ \o data)]
           /\ posts' = Resume(posts, st.calls)
    /\ nLines' = nLines + BeginIn(procs[w].partial, data)
    /\ UNCHANGED <<pythonProcess, requestManager, mgrs, timers, nErr>>

LegacyNext ==
    \/ \E method \in Methods, outcome \in SpawnOutcomes, now \in LegacyNow :
         LegacySendToPython(method, outcome, now)
    \/ LegacyDeactivate
    \/ \E w \in 1..Len(procs) : LegacyExitEvent(w)
    \/ \E w \in 1..Len(procs) :
         \E data \in LegacyChunks(w, MaxOut - nLines) :
            LegacyStdoutData(w, data)

LegacySpec == Init /\ [][LegacyNext]_vars

\* the calls whose dataHandler is attached to the stdout of w
LegacyListeners(w) ==
    {procs[w].listeners[i] : i \in 1..Len(procs[w].listeners)}

\* this step is the 'data' event on the stdout of w that carries data
LegacyDataStep(w, data) ==
    /\ procs'[w].partial = Unterminated(procs[w].partial \o data)
    /\ nLines' = nLines + BeginIn(procs[w].partial, data)
    /\ LegacyStdoutData(w, data)

\* C33: interference of simultaneous legacy calls.  A 'data' event on the
\* stdout of a worker settles every outstanding call whose dataHandler is
\* attached to it, all of them with the same outcome and the same payload;
\* when the chunk is an envelope with a result, that result is what each of
\* them resolves to, whatever id the envelope and the call carry.
SharedChunkSettlesAll ==
    [][\A w \in 1..Len(procs) :
         \A data \in LegacyChunks(w, MaxOut - nLines) :
            LegacyDataStep(w, data) =>
               LET out == {c \in LegacyListeners(w) : Pending(c)}
                   r == JSONparse(data)
               IN  /\ \A c \in out : calls'[c].outcome # "pending"
                   /\ \A c, d \in out :
                         /\ calls'[c].outcome = calls'[d].outcome
                         /\ calls'[c].value = calls'[d].value
                   /\ (r # ParseError /\ Defined(r.result)) =>
                         \A c \in out : calls'[c].value = r.result]_vars

\* C33 witness: two calls with different ids were outstanding on one worker
\* and the only line the worker printed, the response to the first, resolved
\* both.
TwoCallsOneChunk ==
    /\ Len(calls) >= 2
    /\ calls[1].proc = calls[2].proc
    /\ calls[1].id # calls[2].id
    /\ calls[1].outcome = "result" /\ calls[2].outcome = "result"
    /\ calls[1].value = [from |-> calls[1].proc, re |-> calls[1].id]
    /\ calls[2].value = calls[1].value
    /\ nLines = 1

\* C34: no timeout in the legacy sendToPython.  A pending call has its
\* dataHandler attached to the stdout of its worker; as long as no stdout data
\* was delivered every call that found the stdio streams is pending; and the
\* only step that changes a pending call is a 'data' event on the stdout of
\* its own worker: neither time, nor the worker's exit, nor deactivate()
\* settles it.
NoLegacyTimeout ==
    /\ [](\A c \in CallIds :
            Pending(c) => c \in LegacyListeners(calls[c].proc))
    /\ [](nLines = 0 =>
            \A c \in CallIds : calls[c].outcome # "transport" => Pending(c))
    /\ [][\A c \in CallIds :
            (Pending(c) /\ calls'[c] # calls[c]) =>
               \E data \in LegacyChunks(calls[c].proc, MaxOut - nLines) :
                  LegacyDataStep(calls[c].proc, data)]_vars

\* C34 witness: the worker exited without having printed anything; the call
\* is still pending and its dataHandler is still attached.
SilentWorkerExited ==
    /\ Len(calls) >= 1
    /\ Pending(1)
    /\ procs[calls[1].proc].state = "exited"
    /\ procs[calls[1].proc].stdin # <<>>
    /\ nLines = 0
    /\ 1 \in LegacyListeners(calls[1].proc)
    /\ pythonProcess = 0

====
